---- MODULE Spec2Model ----
(***************************************************************************)
(* A model of src/main.c (ascii-fluid): the GLFW/OpenGL quad renderer, its *)
(* glyph-atlas tile addressing and the application driver.                 *)
(*                                                                         *)
(* Conventions                                                             *)
(*  - A float is modelled by the rational it denotes, a normalised pair    *)
(*    <<n, d>> (d = 0: <<1,0>> is +inf, <<-1,0>> is -inf, <<0,0>> is NaN). *)
(*    Rounding of float arithmetic is not modelled, except where an        *)
(*    integer is converted (uint32_t -> float in draw_ascii_tile), which   *)
(*    is computed bit-exactly.                                             *)
(*  - A uint32_t that may exceed 2^31 is a pair <<hi, lo>> of 16-bit       *)
(*    halves, with the arithmetic of the code done modulo 2^32.            *)
(*  - The OpenGL context is one record, gl; every gl* call of the source   *)
(*    is an operator from context to context, composed in source order.    *)
(***************************************************************************)
EXTENDS Integers, Sequences, FiniteSets, TLC

VARIABLES
    pc,              \* position of main(): the next step to run
    exit_status,     \* -1 while the process runs, else its exit status
    glfw,            \* the windowing library: [lib, window, should_close, key_cb, size_cb]
    g_window_state,  \* Window_State: [w, h]
    g_gl_state,      \* Gl_State: [vbo, ebo, vao, shader, empty_texture]
    gl,              \* the OpenGL context
    claesz,          \* Texture claesz of main()
    curses_atlas,    \* Ascii_Atlas curses_atlas of main()
    lx, ly,          \* the loop variables x and y of the glyph grid
    frame_ops,       \* run-length log of the GL/GLFW operations of the current frame
    polled,          \* events delivered so far by the current glfwPollEvents
    char_signed,     \* whether plain char is signed in this build
    locals,          \* locals live across steps: gl_state, vert_shader, frag_shader
    last_call,       \* the renderer entry point called last, with its arguments
    tile_call        \* the last evaluation of the tile addressing of draw_ascii_tile

vars == <<pc, exit_status, glfw, g_window_state, g_gl_state, gl, claesz,
          curses_atlas, lx, ly, frame_ops, polled, char_signed, locals,
          last_call, tile_call>>

(***************************************************************************)
(* Program constants.                                                      *)
(***************************************************************************)
SCREEN_WIDTH == 800
SCREEN_HEIGHT == 600
MAX_VERT == 1024
MAX_IDX == 4096
SizeofFloat == 4
SizeofU32 == 4
TILE_DIM == 24
GRID == 50
GLYPH_MOD == 128
GLFW_KEY_ESCAPE == 256
GLFW_RELEASE == 0
GLFW_PRESS == 1
GLFW_REPEAT == 2

(***************************************************************************)
(* Bounds of the model.                                                    *)
(***************************************************************************)
MaxEvents == 2          \* events one glfwPollEvents delivers at most
OtherKey == 65          \* a key that is not Escape (GLFW_KEY_A)

(***************************************************************************)
(* Floats as rationals.                                                    *)
(***************************************************************************)
Abs(n) == IF n < 0 THEN -n ELSE n
Sgn(n) == IF n < 0 THEN -1 ELSE IF n > 0 THEN 1 ELSE 0

RECURSIVE GCD(_, _)
GCD(a, b) == IF b = 0 THEN a ELSE GCD(b, a % b)

FNorm(n, d) ==
    IF d = 0 THEN <<Sgn(n), 0>>
    ELSE LET g == GCD(Abs(n), d) IN <<Sgn(n) * (Abs(n) \div g), d \div g>>

F(n) == <<n, 1>>
FDec(n, d) == FNorm(n, d)       \* a decimal literal such as 0.7f = FDec(7, 10)

FAdd(a, b) ==
    IF a[2] = 0 /\ b[2] = 0
    THEN (IF a[1] = b[1] THEN a ELSE <<0, 0>>)
    ELSE FNorm(a[1] * b[2] + b[1] * a[2], a[2] * b[2])
FNeg(a) == <<-a[1], a[2]>>
FSub(a, b) == FAdd(a, FNeg(b))
FMul(a, b) == FNorm(a[1] * b[1], a[2] * b[2])
FInv(a) ==
    IF a[1] > 0 THEN <<a[2], a[1]>>
    ELSE IF a[1] < 0 THEN <<-a[2], -a[1]>>
    ELSE IF a[2] = 0 THEN <<0, 0>> ELSE <<1, 0>>
FDiv(a, b) == FMul(a, FInv(b))

(***************************************************************************)
(* uint32_t as <<hi, lo>>, 16 bits each.                                   *)
(***************************************************************************)
Half == 2^16

U32(n) == <<n \div Half, n % Half>>                  \* 0 <= n < 2^31

\* (unsigned)c for a char value c: sign extension of a negative value.
UnsignedOfChar(c) == IF c >= 0 THEN <<0, c>> ELSE <<Half - 1, Half + c>>

\* u / d and u % d in uint32_t, 1 <= d < 2^15.
U32Div(u, d) == <<u[1] \div d, ((u[1] % d) * Half + u[2]) \div d>>
U32Mod(u, d) == ((u[1] % d) * Half + u[2]) % d

\* u * m in uint32_t (modulo 2^32), 0 <= m < 2^15.
U32Mul(u, m) ==
    LET p == u[2] * m
    IN  <<(u[1] * m + p \div Half) % Half, p % Half>>

\* u * m as a natural number, no wrap: <<hi, lo>> with hi unbounded.
WideMul(u, m) ==
    LET p == u[2] * m
    IN  <<u[1] * m + p \div Half, p % Half>>

RECURSIVE BitLen(_)
BitLen(n) == IF n = 0 THEN 0 ELSE 1 + BitLen(n \div 2)
RECURSIVE Pow2(_)
Pow2(k) == IF k = 0 THEN 1 ELSE 2 * Pow2(k - 1)

\* (float)u for a uint32_t u: round to nearest, ties to even, 24 significant
\* bits.  The result is an integer below or equal to 2^32, again <<hi, lo>>.
U32ToFloat(u) ==
    IF u[1] < 256 THEN u
    ELSE LET s    == BitLen(u[1]) - 8           \* low bits dropped, 1..8
             ulp  == Pow2(s)
             q    == u[2] \div ulp
             r    == u[2] % ulp
             up   == IF 2 * r > ulp \/ (2 * r = ulp /\ q % 2 = 1) THEN 1 ELSE 0
             lo   == (q + up) * ulp
         IN  IF lo = Half THEN <<u[1] + 1, 0>> ELSE <<u[1], lo>>

\* The rational of an integer-valued float below 2^31.
FOfU32(u) == F(u[1] * Half + u[2])

(***************************************************************************)
(* The OpenGL context.  Object names are handed out in order, from 1.      *)
(* A buffer's data is a function from the float/uint32 slots written so    *)
(* far (byte offset / 4) to their values: glBufferData(.., NULL, ..)       *)
(* allocates without initialising, so an unwritten slot has no value.      *)
(***************************************************************************)
NoData == [i \in {} |-> 0]

GlInit ==
    [viewport |-> <<0, 0>>, clear_color |-> <<F(0), F(0), F(0), F(0)>>,
     blend |-> FALSE,
     program |-> 0, vao |-> 0, texture |-> 0,
     array_buffer |-> 0, element_buffer |-> 0,
     buffers |-> NoData, vaos |-> NoData, textures |-> NoData,
     programs |-> NoData, shaders |-> {},
     error |-> FALSE, log |-> <<>>]

NextName(used) == Cardinality(used) + 1

glGenBuffers(g) ==
    [g EXCEPT !.buffers = @ @@ (NextName(DOMAIN @) :> [size |-> 0, data |-> NoData])]
glGenVertexArrays(g) ==
    [g EXCEPT !.vaos = @ @@ (NextName(DOMAIN @) :> [attribs |-> NoData, element_buffer |-> 0])]
glGenTextures(g) ==
    [g EXCEPT !.textures = @ @@ (NextName(DOMAIN @) :>
        [w |-> 0, h |-> 0, pixels |-> "none", wrap |-> "none", filter |-> "none", mipmap |-> FALSE])]

glBindVertexArray(g, id) == [g EXCEPT !.vao = id]
glUseProgram(g, id) == [g EXCEPT !.program = id]
glBindTexture(g, id) == [g EXCEPT !.texture = id]

\* The element array binding is state of the bound vertex array object; with
\* none bound it is kept in the context.
glBindBuffer(g, target, id) ==
    IF target = "ARRAY" THEN [g EXCEPT !.array_buffer = id]
    ELSE IF g.vao # 0 THEN [g EXCEPT !.vaos[g.vao].element_buffer = id]
    ELSE [g EXCEPT !.element_buffer = id]

BoundBuffer(g, target) ==
    IF target = "ARRAY" THEN g.array_buffer
    ELSE IF g.vao # 0 THEN g.vaos[g.vao].element_buffer
    ELSE g.element_buffer

glBufferData(g, target, size) ==
    LET id == BoundBuffer(g, target)
    IN  IF id = 0 THEN [g EXCEPT !.error = TRUE]
        ELSE [g EXCEPT !.buffers[id] = [size |-> size, data |-> NoData]]

\* glBufferSubData of Len(data) 4-byte values at byte offset `offset`.
glBufferSubData(g, target, offset, data) ==
    LET id    == BoundBuffer(g, target)
        first == offset \div SizeofFloat
        new   == [i \in first .. (first + Len(data) - 1) |-> data[i - first + 1]]
    IN  IF id = 0 \/ offset + Len(data) * SizeofFloat > g.buffers[id].size
        THEN [g EXCEPT !.error = TRUE]
        ELSE [g EXCEPT !.buffers[id].data = new @@ @]

glVertexAttribPointer(g, index, size, stride, offset) ==
    IF g.vao = 0 THEN [g EXCEPT !.error = TRUE]
    ELSE [g EXCEPT !.vaos[g.vao].attribs = (index :>
            [size |-> size, stride |-> stride, offset |-> offset,
             buffer |-> g.array_buffer, enabled |-> FALSE]) @@ @]
glEnableVertexAttribArray(g, index) ==
    IF g.vao = 0 THEN [g EXCEPT !.error = TRUE]
    ELSE [g EXCEPT !.vaos[g.vao].attribs[index].enabled = TRUE]

glEnableBlend(g) == [g EXCEPT !.blend = TRUE]
glViewport(g, w, h) == [g EXCEPT !.viewport = <<w, h>>]
glClearColor(g, c) == [g EXCEPT !.clear_color = c]
glClear(g) == [g EXCEPT !.log = Append(@, [op |-> "clear"])]

\* glTexParameteri x4, as load_texture and load_empty_texture set them.
glTexParameters(g) ==
    IF g.texture = 0 THEN [g EXCEPT !.error = TRUE]
    ELSE [g EXCEPT !.textures[g.texture].wrap = "REPEAT",
                   !.textures[g.texture].filter = "LINEAR"]
glTexImage2D(g, w, h, pixels) ==
    IF g.texture = 0 THEN [g EXCEPT !.error = TRUE]
    ELSE [g EXCEPT !.textures[g.texture].w = w, !.textures[g.texture].h = h,
                   !.textures[g.texture].pixels = pixels]
glGenerateMipmap(g) ==
    IF g.texture = 0 THEN [g EXCEPT !.error = TRUE]
    ELSE [g EXCEPT !.textures[g.texture].mipmap = TRUE]

\* Shader and program objects share one name space.
ShaderNames(g) == g.shaders \cup DOMAIN g.programs
glCreateShader(g) == [g EXCEPT !.shaders = @ \cup {NextName(ShaderNames(g))}]
glDeleteShader(g, id) == [g EXCEPT !.shaders = @ \ {id}]
\* glCreateProgram, glAttachShader x2 and a successful glLinkProgram.
glLinkedProgram(g) ==
    [g EXCEPT !.programs = @ @@ (NextName(ShaderNames(g)) :> [projection |-> NoData])]

\* glUniformMatrix4fv(glGetUniformLocation(prog, "projection"), ..): the
\* location is -1 (and the call ignored) when prog is no program; the value
\* goes to the program in use.
glUniformProjection(g, prog, m) ==
    IF prog \notin DOMAIN g.programs THEN [g EXCEPT !.error = TRUE]
    ELSE IF g.program \notin DOMAIN g.programs THEN [g EXCEPT !.error = TRUE]
    ELSE [g EXCEPT !.programs[g.program].projection = m]

\* The value of slot i of a buffer; a slot never written holds no defined
\* value: UndefFloat as a float, UndefIndex as an index.
UndefFloat == <<0, 0 - 1>>
UndefIndex == 0 - 1
Slot(g, buf, i, undef) ==
    IF buf \in DOMAIN g.buffers /\ i \in DOMAIN g.buffers[buf].data
    THEN g.buffers[buf].data[i] ELSE undef

\* What the vertex format of the bound vertex array fetches for vertex v.
FetchAttrib(g, a, v) ==
    LET at    == g.vaos[g.vao].attribs[a]
        first == (at.offset + v * at.stride) \div SizeofFloat
    IN  [k \in 1 .. at.size |-> Slot(g, at.buffer, first + k - 1, UndefFloat)]
FetchVertex(g, v) ==
    [pos |-> FetchAttrib(g, 0, v), tex |-> FetchAttrib(g, 1, v), col |-> FetchAttrib(g, 2, v)]

\* glDrawElements(GL_TRIANGLES, count, GL_UNSIGNED_INT, 0): the draw as the
\* GPU sees it, appended to the log of the context.
glDrawElements(g, count) ==
    IF g.vao = 0 \/ g.program \notin DOMAIN g.programs THEN [g EXCEPT !.error = TRUE]
    ELSE LET ebo  == g.vaos[g.vao].element_buffer
             idx  == [k \in 1 .. count |-> Slot(g, ebo, k - 1, UndefIndex)]
             used == {idx[k] : k \in 1 .. count} \ {UndefIndex}
         IN  [g EXCEPT !.log = Append(@,
                [op |-> "draw", count |-> count, indices |-> idx,
                 verts |-> [v \in used |-> FetchVertex(g, v)],
                 texture |-> g.texture, program |-> g.program,
                 projection |-> g.programs[g.program].projection,
                 viewport |-> g.viewport])]

(***************************************************************************)
(* Values of main.c.                                                       *)
(***************************************************************************)
Rect(x, y, w, h) == [x |-> x, y |-> y, w |-> w, h |-> h]
ZeroRect == Rect(F(0), F(0), F(0), F(0))                  \* (Rect){0}
Texture(id, w, h) == [id |-> id, w |-> w, h |-> h]
ZeroTexture == Texture(0, F(0), F(0))                     \* Texture texture = {0}
ZeroGlState == [vbo |-> 0, ebo |-> 0, vao |-> 0, shader |-> 0, empty_texture |-> ZeroTexture]
ZeroAtlas == [tex |-> ZeroTexture, tile_dim |-> 0, h_count |-> 0, v_count |-> 0]

\* (uint32_t) of a non-negative float: truncation.
Trunc(a) == a[1] \div a[2]

(***************************************************************************)
(* The geometry buffer layout, as initialize_gl_state declares it and as   *)
(* draw_texture uploads to it (the source computes each on its own).       *)
(***************************************************************************)
TotalSize == MAX_VERT * (2 + 2 + 4) * SizeofFloat
IndexSize == MAX_IDX * SizeofU32
PosStride == 2 * SizeofFloat
TexStride == 2 * SizeofFloat
ColStride == 4 * SizeofFloat

FmtPosOffset == 0
FmtTexOffset == FmtPosOffset + PosStride * MAX_VERT
FmtColOffset == FmtTexOffset + TexStride * MAX_VERT
FmtEnd       == FmtColOffset + ColStride * MAX_VERT

VertToSubCount == 4
IdxToSubCount == 6
UpPosOffset == 0
\* Variant: the texcoords uploaded right behind the four positions.
UpTexOffset_packed == UpPosOffset + PosStride * VertToSubCount
UpTexOffset == UpPosOffset + PosStride * MAX_VERT
UpColOffset == UpTexOffset + TexStride * MAX_VERT
UpEnd       == UpColOffset + ColStride * MAX_VERT

\* assert(offset == total_size) of initialize_gl_state.
InitAsserts == FmtEnd = TotalSize

\* initialize_gl_state up to the call of build_default_shaders: the vertex
\* array, the two buffers and the vertex format.
InitBuffers(g) ==
    LET vao == NextName(DOMAIN g.vaos)
        vbo == NextName(DOMAIN g.buffers)
        ebo == vbo + 1
        g1  == glGenBuffers(glGenBuffers(glGenVertexArrays(g)))
        g2  == glBindBuffer(glBindVertexArray(g1, vao), "ARRAY", vbo)
        g3  == glBufferData(g2, "ARRAY", TotalSize)
        g4  == glBufferData(glBindBuffer(g3, "ELEMENT", ebo), "ELEMENT", IndexSize)
        g5  == glEnableVertexAttribArray(glVertexAttribPointer(g4, 0, 2, PosStride, FmtPosOffset), 0)
        g6  == glEnableVertexAttribArray(glVertexAttribPointer(g5, 1, 2, TexStride, FmtTexOffset), 1)
        g7  == glEnableVertexAttribArray(glVertexAttribPointer(g6, 2, 4, ColStride, FmtColOffset), 2)
    IN  [gl_state |-> [ZeroGlState EXCEPT !.vao = vao, !.vbo = vbo, !.ebo = ebo],
         gl |-> glBindBuffer(glBindVertexArray(glBindBuffer(g7, "ARRAY", 0), 0), "ELEMENT", 0)]

\* load_empty_texture: the 1x1 white texture.
load_empty_texture(g) ==
    LET id == NextName(DOMAIN g.textures)
        g1 == glTexParameters(glBindTexture(glGenTextures(g), id))
    IN  [texture |-> Texture(id, F(1), F(1)),
         gl |-> glBindTexture(glTexImage2D(g1, 1, 1, "white"), 0)]

\* load_texture when stbi_load returns a width x height image.
load_texture(g, file, width, height) ==
    LET id == NextName(DOMAIN g.textures)
        g1 == glTexParameters(glBindTexture(glGenTextures(g), id))
        g2 == glGenerateMipmap(glTexImage2D(g1, width, height, file))
    IN  [texture |-> Texture(id, F(width), F(height)),
         gl |-> glBindTexture(g2, 0)]

\* glm_ortho(0, width, height, 0, -1, 1): left, right, bottom, top, near, far.
glm_ortho(left, right, bottom, top, nearZ, farZ) ==
    LET rl == FInv(FSub(right, left))
        tb == FInv(FSub(top, bottom))
        fn == FNeg(FInv(FSub(farZ, nearZ)))
    IN  [m00 |-> FMul(F(2), rl), m11 |-> FMul(F(2), tb), m22 |-> FMul(F(2), fn),
         m30 |-> FMul(FNeg(FAdd(right, left)), rl),
         m31 |-> FMul(FNeg(FAdd(top, bottom)), tb),
         m32 |-> FMul(FAdd(farZ, nearZ), fn), m33 |-> F(1)]

set_ortho_projection(g, gs, width, height) ==
    LET projection == glm_ortho(F(0), F(width), F(height), F(0), F(0 - 1), F(1))
    IN  glUseProgram(glUniformProjection(glUseProgram(g, gs.shader), gs.shader, projection), 0)

(***************************************************************************)
(* draw_texture and the entry points built on it.                          *)
(***************************************************************************)
Positions(dest) ==
    << dest.x, dest.y,
       FAdd(dest.x, dest.w), dest.y,
       dest.x, FAdd(dest.y, dest.h),
       FAdd(dest.x, dest.w), FAdd(dest.y, dest.h) >>

TexCoords(src, texture) ==
    LET n == Rect(FDiv(src.x, texture.w), FDiv(src.y, texture.h),
                  FDiv(src.w, texture.w), FDiv(src.h, texture.h))
    IN  << n.x, n.y,
           FAdd(n.x, n.w), n.y,
           n.x, FAdd(n.y, n.h),
           FAdd(n.x, n.w), FAdd(n.y, n.h) >>

\* for (i < 4) memcpy(colors + i * 4, color, 4 * sizeof(float))
Colors(color) == color \o color \o color \o color

\* Variant: the first triangle wound the other way.
Indices_rewound == <<0, 1, 2, 2, 3, 1>>
Indices == <<2, 1, 0, 2, 3, 1>>

\* The assertions of draw_texture; a failing one aborts the process.
DrawAsserts(dest, texture, src, color) ==
    /\ VertToSubCount < MAX_VERT
    /\ IdxToSubCount < MAX_IDX
    /\ Len(Positions(dest)) * SizeofFloat = PosStride * VertToSubCount
    /\ Len(TexCoords(src, texture)) * SizeofFloat = TexStride * VertToSubCount
    /\ Len(Colors(color)) * SizeofFloat = ColStride * VertToSubCount
    /\ UpEnd = TotalSize
    /\ Len(Indices) = IdxToSubCount

draw_texture(g, gs, dest, texture, src, color) ==
    LET g1 == glBindBuffer(g, "ARRAY", gs.vbo)
        g2 == glBufferSubData(g1, "ARRAY", UpPosOffset, Positions(dest))
        g3 == glBufferSubData(g2, "ARRAY", UpTexOffset, TexCoords(src, texture))
        g4 == glBufferSubData(g3, "ARRAY", UpColOffset, Colors(color))
        g5 == glBindBuffer(g4, "ARRAY", 0)
        g6 == glBindBuffer(g5, "ELEMENT", gs.ebo)
        g7 == glBufferSubData(g6, "ELEMENT", 0, Indices)
        g8 == glBindBuffer(g7, "ELEMENT", 0)
        g9 == glBindTexture(glBindVertexArray(glUseProgram(g8, gs.shader), gs.vao), texture.id)
        g10 == glDrawElements(g9, IdxToSubCount)
    IN  glUseProgram(glBindTexture(glBindVertexArray(g10, 0), 0), 0)

White == <<F(1), F(1), F(1), F(1)>>

\* vec2 size = {texture.w, texture.h}; glm_vec2_scale(size, scale, size)
ScaledDest(pos, texture, scale) ==
    Rect(pos[1], pos[2], FMul(texture.w, scale), FMul(texture.h, scale))
FullSrc(texture) == Rect(F(0), F(0), texture.w, texture.h)

draw_texture_scaled(g, gs, pos, texture, scale) ==
    draw_texture(g, gs, ScaledDest(pos, texture, scale), texture, FullSrc(texture), White)

draw_texture_scaled_tinted(g, gs, pos, texture, scale, color) ==
    draw_texture(g, gs, ScaledDest(pos, texture, scale), texture, FullSrc(texture), color)

\* Variant: the whole fallback texture as source instead of the zero rectangle.
draw_quad_fullsrc(g, gs, quad, color) ==
    draw_texture(g, gs, quad, gs.empty_texture, FullSrc(gs.empty_texture), color)

draw_quad(g, gs, quad, color) ==
    draw_texture(g, gs, quad, gs.empty_texture, ZeroRect, color)

(***************************************************************************)
(* draw_ascii_tile.  The tile addressing divides by atlas.h_count; with    *)
(* h_count = 0 the division is undefined: the build either traps (SIGFPE,  *)
(* x86) or yields quotient 0 and leaves the dividend as remainder (ARM).   *)
(* x_min, y_min and t_d are the floats of the source, integer valued, kept *)
(* as <<hi, lo>>.                                                          *)
(***************************************************************************)
CharValues(signed) == IF signed THEN (0 - 128) .. 127 ELSE 0 .. 255

\* Variants with a plausible slip: the column taken modulo the tile size,
\* the row taken by the number of rows.
TileX_byTileDim(glyph, atlas) == U32(U32Mod(UnsignedOfChar(glyph), atlas.tile_dim))
TileY_byVCount(glyph, atlas) == U32Div(UnsignedOfChar(glyph), atlas.v_count)

TileX(glyph, atlas) == U32(U32Mod(UnsignedOfChar(glyph), atlas.h_count))
TileY(glyph, atlas) == U32Div(UnsignedOfChar(glyph), atlas.h_count)

TileAddress(glyph, atlas) ==
    LET defined == [trap |-> FALSE,
                    x_min |-> U32ToFloat(U32Mul(TileX(glyph, atlas), atlas.tile_dim)),
                    y_min |-> U32ToFloat(U32Mul(TileY(glyph, atlas), atlas.tile_dim)),
                    t_d |-> U32ToFloat(U32(atlas.tile_dim))]
        trapped == [trap |-> TRUE, x_min |-> <<0, 0>>, y_min |-> <<0, 0>>, t_d |-> <<0, 0>>]
        untrapped == [trap |-> FALSE,
                      x_min |-> U32ToFloat(U32Mul(UnsignedOfChar(glyph), atlas.tile_dim)),
                      y_min |-> <<0, 0>>,
                      t_d |-> U32ToFloat(U32(atlas.tile_dim))]
    IN  IF atlas.h_count = 0 THEN {trapped, untrapped} ELSE {defined}

\* draw_ascii_tile once the tile addressing gave `a` without a trap.
draw_ascii_tile(g, gs, pos, a, col, atlas) ==
    draw_texture(g, gs, Rect(pos[1], pos[2], FOfU32(a.t_d), FOfU32(a.t_d)), atlas.tex,
                 Rect(FOfU32(a.x_min), FOfU32(a.y_min), FOfU32(a.t_d), FOfU32(a.t_d)), col)

(***************************************************************************)
(* The environment: what the image files and the window system can give.   *)
(***************************************************************************)
ClaeszSizes == {<<600, 400>>}
AtlasSizes == {<<240, 240>>, <<250, 100>>, <<384, 384>>, <<16, 16>>}
ResizeDims == {<<640, 480>>, <<0, 0>>}
Keys == {GLFW_KEY_ESCAPE, OtherKey}
KeyActions == {GLFW_RELEASE, GLFW_PRESS, GLFW_REPEAT}

(***************************************************************************)
(* Logs.                                                                   *)
(***************************************************************************)
\* The context with the log of the previous step dropped.
Fresh(g) == [g EXCEPT !.log = <<>>]

\* Run-length append of operation `op` to a log of <<op, count>> pairs.
LogOp(ops, op) ==
    IF Len(ops) > 0 /\ ops[Len(ops)][1] = op
    THEN [ops EXCEPT ![Len(ops)] = <<op, @[2] + 1>>]
    ELSE Append(ops, <<op, 1>>)

RECURSIVE LogAll(_, _)
LogAll(ops, log) ==
    IF log = <<>> THEN ops ELSE LogAll(LogOp(ops, Head(log).op), Tail(log))

NoCall == [op |-> "none", args |-> <<>>, repeat |-> FALSE]
NoTile == [called |-> FALSE, glyph |-> 0,
           out |-> [trap |-> FALSE, x_min |-> <<0, 0>>, y_min |-> <<0, 0>>, t_d |-> <<0, 0>>]]
ZeroLocals == [gl_state |-> ZeroGlState, vert_shader |-> 0, frag_shader |-> 0]

(***************************************************************************)
(* main(): startup.                                                        *)
(***************************************************************************)
glfwTerminate(w) == [w EXCEPT !.lib = "terminated", !.window = FALSE]

\* Variant: exit(1) without glfwTerminate().
exit_with_error_unterminated ==
    /\ exit_status' = 1
    /\ pc' = "exited"
    /\ UNCHANGED glfw

\* exit_with_error: the diagnostic, glfwTerminate(), exit(1).
exit_with_error ==
    /\ glfw' = glfwTerminate(glfw)
    /\ exit_status' = 1
    /\ pc' = "exited"

\* A failed assert: abort(), the process dies by SIGABRT.
assert_failed ==
    /\ pc' = "aborted"
    /\ UNCHANGED <<exit_status, glfw>>

Init ==
    /\ pc = "glfwInit"
    /\ exit_status = 0 - 1
    /\ glfw = [lib |-> "off", window |-> FALSE, should_close |-> FALSE,
               key_cb |-> FALSE, size_cb |-> FALSE]
    /\ g_window_state = [w |-> 0, h |-> 0]
    /\ g_gl_state = ZeroGlState
    /\ gl = GlInit
    /\ claesz = ZeroTexture
    /\ curses_atlas = ZeroAtlas
    /\ lx = 0 /\ ly = 0
    /\ frame_ops = <<>>
    /\ polled = 0
    /\ char_signed \in BOOLEAN
    /\ locals = ZeroLocals
    /\ last_call = NoCall
    /\ tile_call = NoTile

\* Lines 80-84.
GlfwInit ==
    /\ pc = "glfwInit"
    /\ \E ok \in BOOLEAN :
         IF ok THEN /\ glfw' = [glfw EXCEPT !.lib = "on"]
                    /\ pc' = "createWindow"
                    /\ UNCHANGED exit_status
         ELSE exit_with_error
    /\ UNCHANGED <<g_window_state, g_gl_state, gl, claesz, curses_atlas, lx, ly,
                   frame_ops, polled, char_signed, locals, last_call, tile_call>>

\* Lines 86-98.
CreateWindow ==
    /\ pc = "createWindow"
    /\ g_window_state' = [w |-> SCREEN_WIDTH, h |-> SCREEN_HEIGHT]
    /\ \E ok \in BOOLEAN :
         IF ok THEN /\ glfw' = [glfw EXCEPT !.window = TRUE]
                    /\ pc' = "loadGL"
                    /\ UNCHANGED exit_status
         ELSE exit_with_error
    /\ UNCHANGED <<g_gl_state, gl, claesz, curses_atlas, lx, ly,
                   frame_ops, polled, char_signed, locals, last_call, tile_call>>

\* Lines 100-109: the context, the GL loader, the two callbacks.
LoadGL ==
    /\ pc = "loadGL"
    /\ \E ok \in BOOLEAN :
         IF ok THEN /\ glfw' = [glfw EXCEPT !.key_cb = TRUE, !.size_cb = TRUE]
                    /\ pc' = "initGlState"
                    /\ UNCHANGED exit_status
         ELSE exit_with_error
    /\ UNCHANGED <<g_window_state, g_gl_state, gl, claesz, curses_atlas, lx, ly,
                   frame_ops, polled, char_signed, locals, last_call, tile_call>>

\* Line 111 into initialize_gl_state, lines 284-325, and the vertex shader
\* of build_default_shaders (line 262).
InitGlState ==
    /\ pc = "initGlState"
    /\ IF ~InitAsserts
       THEN assert_failed /\ UNCHANGED <<gl, locals>>
       ELSE LET r == InitBuffers(gl)
            IN  \E ok \in BOOLEAN :
                  /\ gl' = glCreateShader(r.gl)
                  /\ IF ok
                     THEN /\ locals' = [locals EXCEPT !.gl_state = r.gl_state,
                                           !.vert_shader = NextName(ShaderNames(r.gl))]
                          /\ pc' = "fragShader"
                          /\ UNCHANGED <<exit_status, glfw>>
                     ELSE exit_with_error /\ UNCHANGED locals
    /\ UNCHANGED <<g_window_state, g_gl_state, claesz, curses_atlas, lx, ly,
                   frame_ops, polled, char_signed, last_call, tile_call>>

\* Line 273: the fragment shader.
FragShader ==
    /\ pc = "fragShader"
    /\ gl' = glCreateShader(gl)
    /\ \E ok \in BOOLEAN :
         IF ok THEN /\ locals' = [locals EXCEPT !.frag_shader = NextName(ShaderNames(gl))]
                    /\ pc' = "linkProgram"
                    /\ UNCHANGED <<exit_status, glfw>>
         ELSE exit_with_error /\ UNCHANGED locals
    /\ UNCHANGED <<g_window_state, g_gl_state, claesz, curses_atlas, lx, ly,
                   frame_ops, polled, char_signed, last_call, tile_call>>

\* Lines 275-280, 325-329 and, back in main, 111-118.
LinkProgram ==
    /\ pc = "linkProgram"
    /\ \E ok \in BOOLEAN :
         IF ok
         THEN LET prog == NextName(ShaderNames(gl))
                  g1   == glDeleteShader(glDeleteShader(glLinkedProgram(gl),
                                            locals.vert_shader), locals.frag_shader)
                  e    == load_empty_texture(g1)
                  gs   == [locals.gl_state EXCEPT !.shader = prog,
                                                  !.empty_texture = e.texture]
                  g2   == glClearColor(glViewport(glEnableBlend(e.gl),
                                          g_window_state.w, g_window_state.h),
                                       <<FDec(9, 100), FDec(7, 100), FDec(7, 100), F(1)>>)
              IN  /\ g_gl_state' = gs
                  /\ locals' = [locals EXCEPT !.gl_state = gs]
                  /\ gl' = set_ortho_projection(g2, gs, g_window_state.w, g_window_state.h)
                  /\ pc' = "loadClaesz"
                  /\ UNCHANGED <<exit_status, glfw>>
         ELSE exit_with_error /\ UNCHANGED <<g_gl_state, gl, locals>>
    /\ UNCHANGED <<g_window_state, claesz, curses_atlas, lx, ly,
                   frame_ops, polled, char_signed, last_call, tile_call>>

\* Line 120.
LoadClaesz ==
    /\ pc = "loadClaesz"
    /\ \/ \E sz \in ClaeszSizes :
            LET r == load_texture(gl, "res/claesz.png", sz[1], sz[2])
            IN  /\ claesz' = r.texture
                /\ gl' = r.gl
                /\ pc' = "loadCurses"
                /\ UNCHANGED <<exit_status, glfw>>
       \/ exit_with_error /\ UNCHANGED <<claesz, gl>>
    /\ UNCHANGED <<g_window_state, g_gl_state, curses_atlas, lx, ly,
                   frame_ops, polled, char_signed, locals, last_call, tile_call>>

\* Lines 121-125: the atlas of a loaded texture.
MakeAtlas(tex) ==
    [tex |-> tex, tile_dim |-> TILE_DIM,
     h_count |-> Trunc(FDiv(tex.w, F(TILE_DIM))),
     v_count |-> Trunc(FDiv(tex.h, F(TILE_DIM)))]

\* Lines 121-127.
LoadCurses ==
    /\ pc = "loadCurses"
    /\ \/ \E sz \in AtlasSizes :
            LET r == load_texture(gl, "res/curses.png", sz[1], sz[2])
            IN  /\ curses_atlas' = MakeAtlas(r.texture)
                /\ gl' = r.gl
                /\ pc' = "loop_test"
                /\ UNCHANGED <<exit_status, glfw>>
       \/ exit_with_error /\ UNCHANGED <<curses_atlas, gl>>
    /\ UNCHANGED <<g_window_state, g_gl_state, claesz, lx, ly,
                   frame_ops, polled, char_signed, locals, last_call, tile_call>>

Startup ==
    \/ GlfwInit
    \/ CreateWindow
    \/ LoadGL
    \/ InitGlState
    \/ FragShader
    \/ LinkProgram
    \/ LoadClaesz
    \/ LoadCurses

(***************************************************************************)
(* main(): the frame loop, lines 128-149.                                  *)
(***************************************************************************)
BgScale == FDec(7, 10)
BgTint == <<FDec(22, 100), FDec(2, 10), FDec(2, 10), FDec(5, 10)>>
Magenta == <<F(1), F(0), F(1), F(1)>>

\* vec2 bg_pos of lines 132-135.
BgPos(ws, tex) ==
    << FSub(FMul(F(ws.w), FDec(1, 2)), FMul(FMul(tex.w, BgScale), FDec(1, 2))),
       FSub(FMul(F(ws.h), FDec(1, 2)), FMul(FMul(tex.h, BgScale), FDec(1, 2))) >>

\* (char)v for 0 <= v < 256.
CharOf(v, signed) == IF signed /\ v > 127 THEN v - 256 ELSE v

\* The glyph of cell (x, y), line 143.
CellGlyph(x, y, atlas, signed) == CharOf((x + y * atlas.h_count) % GLYPH_MOD, signed)
\* The position of cell (x, y), line 142.
CellPos(x, y, atlas) == <<FMul(F(x), F(atlas.tile_dim)), FMul(F(y), F(atlas.tile_dim))>>

frameUnchanged == <<exit_status, glfw, g_window_state, g_gl_state, claesz, curses_atlas,
                    polled, char_signed, locals, last_call, tile_call>>

\* Line 128: the loop condition.
LoopTest ==
    /\ pc = "loop_test"
    /\ IF glfw.should_close
       THEN pc' = "shutdown" /\ UNCHANGED frame_ops
       ELSE pc' = "clear" /\ frame_ops' = <<>>
    /\ UNCHANGED <<gl, lx, ly>>
    /\ UNCHANGED frameUnchanged

\* Line 129.
Clear ==
    /\ pc = "clear"
    /\ gl' = glClear(Fresh(gl))
    /\ frame_ops' = LogAll(frame_ops, gl'.log)
    /\ pc' = "draw_bg"
    /\ UNCHANGED <<lx, ly>>
    /\ UNCHANGED frameUnchanged

\* Lines 131-136.
DrawBg ==
    /\ pc = "draw_bg"
    /\ LET pos == BgPos(g_window_state, claesz)
       IN  IF DrawAsserts(ScaledDest(pos, claesz, BgScale), claesz, FullSrc(claesz), BgTint)
           THEN /\ gl' = draw_texture_scaled_tinted(Fresh(gl), g_gl_state, pos, claesz,
                                                    BgScale, BgTint)
                /\ frame_ops' = LogAll(frame_ops, gl'.log)
                /\ pc' = "draw_atlas"
           ELSE pc' = "aborted" /\ UNCHANGED <<gl, frame_ops>>
    /\ UNCHANGED <<lx, ly>>
    /\ UNCHANGED frameUnchanged

\* Line 138, and the entry of the two loops.
DrawAtlas ==
    /\ pc = "draw_atlas"
    /\ LET pos == <<F(100), F(100)>>
           tex == curses_atlas.tex
       IN  IF DrawAsserts(ScaledDest(pos, tex, F(1)), tex, FullSrc(tex), White)
           THEN /\ gl' = draw_texture_scaled(Fresh(gl), g_gl_state, pos, tex, F(1))
                /\ frame_ops' = LogAll(frame_ops, gl'.log)
                /\ pc' = "draw_tile"
                /\ lx' = 0 /\ ly' = 0
           ELSE pc' = "aborted" /\ UNCHANGED <<gl, frame_ops, lx, ly>>
    /\ UNCHANGED frameUnchanged

\* Lines 140-145: one iteration of the inner loop.
DrawTile ==
    /\ pc = "draw_tile"
    /\ \E a \in TileAddress(CellGlyph(lx, ly, curses_atlas, char_signed), curses_atlas) :
         LET pos == CellPos(lx, ly, curses_atlas)
             td  == FOfU32(a.t_d)
         IN  IF a.trap
             THEN pc' = "crashed" /\ UNCHANGED <<gl, frame_ops, lx, ly>>
             ELSE IF ~DrawAsserts(Rect(pos[1], pos[2], td, td), curses_atlas.tex,
                                  Rect(FOfU32(a.x_min), FOfU32(a.y_min), td, td), Magenta)
             THEN pc' = "aborted" /\ UNCHANGED <<gl, frame_ops, lx, ly>>
             ELSE /\ gl' = draw_ascii_tile(Fresh(gl), g_gl_state, pos, a, Magenta, curses_atlas)
                  /\ frame_ops' = LogAll(frame_ops, gl'.log)
                  /\ lx' = IF lx + 1 < GRID THEN lx + 1 ELSE 0
                  /\ ly' = IF lx + 1 < GRID THEN ly ELSE ly + 1
                  /\ pc' = IF lx + 1 < GRID \/ ly + 1 < GRID THEN "draw_tile" ELSE "swap"
    /\ UNCHANGED frameUnchanged

\* Line 147.
SwapBuffers ==
    /\ pc = "swap"
    /\ frame_ops' = LogOp(frame_ops, "swap")
    /\ pc' = "poll"
    /\ UNCHANGED <<gl, lx, ly>>
    /\ UNCHANGED frameUnchanged

(***************************************************************************)
(* glfwPollEvents, line 148: GLFW runs the callbacks of the pending events *)
(* inside the call, one after the other, and nowhere else.                 *)
(***************************************************************************)
PollEnter ==
    /\ pc = "poll"
    /\ frame_ops' = LogOp(frame_ops, "poll")
    /\ polled' = 0
    /\ pc' = "polling"
    /\ UNCHANGED <<exit_status, glfw, g_window_state, g_gl_state, gl, claesz, curses_atlas,
                   lx, ly, char_signed, locals, last_call, tile_call>>

\* keyboard_callback, lines 189-196.
keyboard_callback(w, key, action) ==
    IF key = GLFW_KEY_ESCAPE /\ action = GLFW_PRESS
    THEN [w EXCEPT !.should_close = TRUE]
    ELSE w

\* Variants: the projection computed from the dimensions stored before the
\* call; the new dimensions not stored.
window_size_callback_stale(ws, g, gs, width, height) ==
    [ws |-> [ws EXCEPT !.w = width, !.h = height],
     gl |-> set_ortho_projection(glViewport(g, width, height), gs, ws.w, ws.h)]
window_size_callback_unstored(ws, g, gs, width, height) ==
    [ws |-> ws,
     gl |-> set_ortho_projection(glViewport(g, width, height), gs, width, height)]

\* window_size_callback, lines 198-205: the new Window_State and context.
window_size_callback(ws, g, gs, width, height) ==
    [ws |-> [ws EXCEPT !.w = width, !.h = height],
     gl |-> set_ortho_projection(glViewport(g, width, height), gs, width, height)]

KeyEvent(key, action) ==
    /\ pc = "polling" /\ polled < MaxEvents /\ glfw.key_cb
    /\ glfw' = keyboard_callback(glfw, key, action)
    /\ frame_ops' = LogOp(frame_ops, "keyboard_callback")
    /\ polled' = polled + 1
    /\ UNCHANGED <<pc, exit_status, g_window_state, g_gl_state, gl, claesz, curses_atlas,
                   lx, ly, char_signed, locals, last_call, tile_call>>

WindowSizeEvent(width, height) ==
    /\ pc = "polling" /\ polled < MaxEvents /\ glfw.size_cb
    /\ LET r == window_size_callback(g_window_state, Fresh(gl), g_gl_state, width, height)
       IN  g_window_state' = r.ws /\ gl' = r.gl
    /\ frame_ops' = LogOp(frame_ops, "window_size_callback")
    /\ polled' = polled + 1
    /\ UNCHANGED <<pc, exit_status, glfw, g_gl_state, claesz, curses_atlas,
                   lx, ly, char_signed, locals, last_call, tile_call>>

\* The user closes the window: GLFW sets the close flag itself.
CloseEvent ==
    /\ pc = "polling" /\ polled < MaxEvents
    /\ glfw' = [glfw EXCEPT !.should_close = TRUE]
    /\ frame_ops' = LogOp(frame_ops, "close")
    /\ polled' = polled + 1
    /\ UNCHANGED <<pc, exit_status, g_window_state, g_gl_state, gl, claesz, curses_atlas,
                   lx, ly, char_signed, locals, last_call, tile_call>>

PollReturn ==
    /\ pc = "polling"
    /\ polled' = 0
    /\ pc' = "loop_test"
    /\ UNCHANGED <<exit_status, glfw, g_window_state, g_gl_state, gl, claesz, curses_atlas,
                   lx, ly, frame_ops, char_signed, locals, last_call, tile_call>>

\* Lines 151-154.
Shutdown ==
    /\ pc = "shutdown"
    /\ glfw' = glfwTerminate(glfw)
    /\ exit_status' = 0
    /\ pc' = "exited"
    /\ UNCHANGED <<g_window_state, g_gl_state, gl, claesz, curses_atlas, lx, ly,
                   frame_ops, polled, char_signed, locals, last_call, tile_call>>

Frame ==
    \/ LoopTest
    \/ Clear
    \/ DrawBg
    \/ DrawAtlas
    \/ DrawTile
    \/ SwapBuffers

Poll ==
    \/ PollEnter
    \/ \E key \in Keys, action \in KeyActions : KeyEvent(key, action)
    \/ \E d \in ResizeDims : WindowSizeEvent(d[1], d[2])
    \/ CloseEvent
    \/ PollReturn

Next == Startup \/ Frame \/ Poll \/ Shutdown

Spec == Init /\ [][Next]_vars

(***************************************************************************)
(* The renderer as a library: once main() has started up, any entry point  *)
(* may be called, in any order, and GLFW may report a new window size      *)
(* between two calls.                                                      *)
(***************************************************************************)
HarnessPos == {<<F(100), FDec(5, 2)>>}
HarnessRects == {Rect(F(10), F(20), F(30), F(40)), Rect(F(0), F(0), F(24), F(24))}
HarnessSrcs == {Rect(F(24), F(48), F(24), F(24))}
HarnessColors == {White, BgTint}
HarnessScales == {F(1), BgScale}
HarnessGlyphs == {0, 23, 127}
LoadedTextures == {claesz, curses_atlas.tex, g_gl_state.empty_texture}

Called(op, args) ==
    [op |-> op, args |-> args, repeat |-> (last_call.op = op /\ last_call.args = args)]

callUnchanged == <<exit_status, glfw, g_gl_state, claesz, curses_atlas, lx, ly,
                   frame_ops, polled, char_signed, locals, tile_call>>

\* A call of the entry point `op`, which calls draw_texture(dest, texture,
\* src, color) and leaves the context `drawn`.
DrawCall(op, args, dest, texture, src, color, drawn) ==
    /\ pc = "loop_test"
    /\ last_call' = Called(op, args)
    /\ IF DrawAsserts(dest, texture, src, color)
       THEN gl' = drawn /\ pc' = pc
       ELSE pc' = "aborted" /\ UNCHANGED gl
    /\ UNCHANGED g_window_state
    /\ UNCHANGED callUnchanged

CallDrawTexture ==
    \E dest \in HarnessRects, texture \in LoadedTextures,
       src \in HarnessSrcs, color \in HarnessColors :
        DrawCall("draw_texture", <<dest, texture, src, color>>, dest, texture, src, color,
                 draw_texture(Fresh(gl), g_gl_state, dest, texture, src, color))

CallDrawTextureScaled ==
    \E pos \in HarnessPos, texture \in LoadedTextures, scale \in HarnessScales :
        DrawCall("draw_texture_scaled", <<pos, texture, scale>>,
                 ScaledDest(pos, texture, scale), texture, FullSrc(texture), White,
                 draw_texture_scaled(Fresh(gl), g_gl_state, pos, texture, scale))

CallDrawTextureScaledTinted ==
    \E pos \in HarnessPos, texture \in LoadedTextures, scale \in HarnessScales,
       color \in HarnessColors :
        DrawCall("draw_texture_scaled_tinted", <<pos, texture, scale, color>>,
                 ScaledDest(pos, texture, scale), texture, FullSrc(texture), color,
                 draw_texture_scaled_tinted(Fresh(gl), g_gl_state, pos, texture, scale, color))

CallDrawQuad ==
    \E quad \in HarnessRects, color \in HarnessColors :
        DrawCall("draw_quad", <<quad, color>>,
                 quad, g_gl_state.empty_texture, ZeroRect, color,
                 draw_quad(Fresh(gl), g_gl_state, quad, color))

CallDrawAsciiTile ==
    \E pos \in HarnessPos, glyph \in HarnessGlyphs, col \in HarnessColors :
      \E a \in TileAddress(glyph, curses_atlas) :
        IF a.trap
        THEN /\ pc = "loop_test"
             /\ pc' = "crashed"
             /\ last_call' = Called("draw_ascii_tile", <<pos, glyph, col, curses_atlas>>)
             /\ UNCHANGED <<gl, g_window_state>>
             /\ UNCHANGED callUnchanged
        ELSE DrawCall("draw_ascii_tile", <<pos, glyph, col, curses_atlas>>,
                      Rect(pos[1], pos[2], FOfU32(a.t_d), FOfU32(a.t_d)), curses_atlas.tex,
                      Rect(FOfU32(a.x_min), FOfU32(a.y_min), FOfU32(a.t_d), FOfU32(a.t_d)),
                      col,
                      draw_ascii_tile(Fresh(gl), g_gl_state, pos, a, col, curses_atlas))

CallWindowSizeCallback ==
    \E d \in ResizeDims :
        /\ pc = "loop_test"
        /\ glfw.size_cb
        /\ last_call' = Called("window_size_callback", <<d[1], d[2]>>)
        /\ LET r == window_size_callback(g_window_state, Fresh(gl), g_gl_state, d[1], d[2])
           IN  g_window_state' = r.ws /\ gl' = r.gl
        /\ UNCHANGED pc
        /\ UNCHANGED callUnchanged

NextRender ==
    \/ Startup
    \/ CallDrawTexture
    \/ CallDrawTextureScaled
    \/ CallDrawTextureScaledTinted
    \/ CallDrawQuad
    \/ CallDrawAsciiTile
    \/ CallWindowSizeCallback

SpecRender == Init /\ [][NextRender]_vars

(***************************************************************************)
(* The tile addressing of draw_ascii_tile on its own: every atlas of       *)
(* AtlasSizes, every value a char can hold.                                *)
(***************************************************************************)
InitTile ==
    /\ pc = "tile"
    /\ exit_status = 0 - 1
    /\ glfw = [lib |-> "off", window |-> FALSE, should_close |-> FALSE,
               key_cb |-> FALSE, size_cb |-> FALSE]
    /\ g_window_state = [w |-> 0, h |-> 0]
    /\ g_gl_state = ZeroGlState
    /\ gl = GlInit
    /\ claesz = ZeroTexture
    /\ curses_atlas \in {MakeAtlas(load_texture(GlInit, "res/curses.png", sz[1], sz[2]).texture) :
                            sz \in AtlasSizes}
    /\ lx = 0 /\ ly = 0
    /\ frame_ops = <<>>
    /\ polled = 0
    /\ char_signed \in BOOLEAN
    /\ locals = ZeroLocals
    /\ last_call = NoCall
    /\ tile_call = NoTile

TileEval ==
    /\ pc = "tile"
    /\ \E glyph \in CharValues(char_signed) :
         \E a \in TileAddress(glyph, curses_atlas) :
            tile_call' = [called |-> TRUE, glyph |-> glyph, out |-> a]
    /\ UNCHANGED <<pc, exit_status, glfw, g_window_state, g_gl_state, gl, claesz,
                   curses_atlas, lx, ly, frame_ops, polled, char_signed, locals, last_call>>

NextTile == TileEval

SpecTile == InitTile /\ [][NextTile]_vars

(***************************************************************************)
(* C3, C4: the tile addressing (checked under SpecTile).                   *)
(***************************************************************************)
\* The rectangle origin as the claims give it, computed in the naturals:
\* {(g mod tiles_per_row) * tile_dim, (g div tiles_per_row) * tile_dim}, g
\* taken as unsigned.  <<hi, lo>> with hi unbounded.
ClaimedOrigin(glyph, atlas) ==
    IF glyph >= 0
    THEN [x |-> U32((glyph % atlas.h_count) * atlas.tile_dim),
          y |-> U32((glyph \div atlas.h_count) * atlas.tile_dim)]
    ELSE [x |-> WideMul(U32(U32Mod(UnsignedOfChar(glyph), atlas.h_count)), atlas.tile_dim),
          y |-> WideMul(U32Div(UnsignedOfChar(glyph), atlas.h_count), atlas.tile_dim)]

\* C3 as stated: for an atlas with tiles_per_row = width div tile_dim and
\* tiles_per_column = height div tile_dim, every glyph code g gets the source
\* rectangle {(g mod tiles_per_row) * tile_dim, (g div tiles_per_row) *
\* tile_dim, tile_dim, tile_dim}, g taken as unsigned; none is rejected.
C3_AsStated ==
    (tile_call.called /\ curses_atlas.h_count >= 1) =>
        /\ ~tile_call.out.trap
        /\ tile_call.out.x_min = ClaimedOrigin(tile_call.glyph, curses_atlas).x
        /\ tile_call.out.y_min = ClaimedOrigin(tile_call.glyph, curses_atlas).y
        /\ tile_call.out.t_d = <<0, curses_atlas.tile_dim>>

\* C3 amended: with tiles_per_row >= 1, a glyph code g >= 0 gets exactly
\* {(g mod tiles_per_row) * tile_dim, (g div tiles_per_row) * tile_dim,
\* tile_dim, tile_dim}; a negative code (signed char) is taken as 2^32 + g,
\* its x is still ((2^32 + g) mod tiles_per_row) * tile_dim, and its y is
\* ((2^32 + g) div tiles_per_row) * tile_dim reduced modulo 2^32 and rounded
\* to single precision.  tiles_per_row and tiles_per_column are the truncating
\* quotients; 240x240 gives 10 and 10, glyph 23 gives {72, 48, 24, 24} and
\* glyph -1 gives y = 1717986944.  No glyph code is rejected.
C3_SourceRect ==
    LET g == tile_call.glyph
        a == curses_atlas
        u == UnsignedOfChar(g)
        o == tile_call.out
    IN  /\ a.h_count = a.tex.w[1] \div a.tile_dim
        /\ a.v_count = a.tex.h[1] \div a.tile_dim
        /\ (a.tex.w = F(240) /\ a.tex.h = F(240)) => (a.h_count = 10 /\ a.v_count = 10)
        /\ (tile_call.called /\ a.h_count >= 1) =>
            /\ ~o.trap
            /\ o.t_d = <<0, a.tile_dim>>
            /\ g >= 0 => /\ o.x_min = U32((g % a.h_count) * a.tile_dim)
                         /\ o.y_min = U32((g \div a.h_count) * a.tile_dim)
            /\ g < 0  => /\ o.x_min = U32(U32Mod(u, a.h_count) * a.tile_dim)
                         /\ o.y_min = U32ToFloat(U32Mul(U32Div(u, a.h_count), a.tile_dim))
            /\ (a.tex.w = F(240) /\ g = 23) => (o.x_min = <<0, 72>> /\ o.y_min = <<0, 48>>)
            /\ (a.tex.w = F(240) /\ g = 0 - 1) =>
                    (o.x_min = <<0, 120>> /\ o.y_min = <<26214, 26240>>)

\* Glyph 23 of the 240x240 atlas has been addressed.
C3_Witness ==
    /\ tile_call.called /\ tile_call.glyph = 23
    /\ curses_atlas.tex.w = F(240) /\ curses_atlas.tex.h = F(240)
    /\ tile_call.out.x_min = <<0, 72>> /\ tile_call.out.y_min = <<0, 48>>

\* The source x of glyph g in the atlas (tiles_per_row >= 1).
XMinOf(g, atlas) == (CHOOSE a \in TileAddress(g, atlas) : TRUE).x_min
URem(g, atlas) == U32Mod(UnsignedOfChar(g), atlas.h_count)
\* 2^32 mod d.
TwoTo32Mod(d) == (U32Mod(<<Half - 1, Half - 1>>, d) + 1) % d

\* The source x grows by tile_dim when g mod tiles_per_row grows by one.
XStep(g, atlas) ==
    (g + 1 \in CharValues(char_signed) /\ URem(g + 1, atlas) = URem(g, atlas) + 1) =>
        XMinOf(g + 1, atlas) = <<0, XMinOf(g, atlas)[2] + atlas.tile_dim>>

\* C4 as stated: for every glyph code g the parameter can hold, negative ones
\* included, such that g + tiles_per_row is such a code too, the source x of
\* g and of g + tiles_per_row are equal; and the source x grows by tile_dim
\* per unit increase of g mod tiles_per_row.
C4_AsStated ==
    (tile_call.called /\ curses_atlas.h_count >= 1) =>
        LET g == tile_call.glyph
        IN  /\ (g + curses_atlas.h_count \in CharValues(char_signed)) =>
                   tile_call.out.x_min = XMinOf(g + curses_atlas.h_count, curses_atlas)
            /\ XStep(g, curses_atlas)

\* C4 amended: the source x of g and of g + tiles_per_row are equal when both
\* codes have the same sign; for g < 0 <= g + tiles_per_row they are equal
\* exactly when tiles_per_row divides 2^32.  The source x grows by tile_dim
\* per unit increase of (g as unsigned) mod tiles_per_row.
C4_PeriodicX ==
    (tile_call.called /\ curses_atlas.h_count >= 1) =>
        LET g  == tile_call.glyph
            g2 == g + curses_atlas.h_count
            same == tile_call.out.x_min = XMinOf(g2, curses_atlas)
        IN  /\ (g2 \in CharValues(char_signed) /\ (g < 0 <=> g2 < 0)) => same
            /\ (g2 \in CharValues(char_signed) /\ g < 0 /\ g2 >= 0) =>
                   (same <=> TwoTo32Mod(curses_atlas.h_count) = 0)
            /\ XStep(g, curses_atlas)

\* A negative glyph whose successor by tiles_per_row is negative too.
C4_Witness ==
    /\ tile_call.called /\ tile_call.glyph = 0 - 20
    /\ curses_atlas.h_count = 10
    /\ tile_call.out.x_min = XMinOf(0 - 10, curses_atlas)

(***************************************************************************)
(* C5 - C8: the renderer (checked under SpecRender).                       *)
(***************************************************************************)
DrawOps == {"draw_texture", "draw_texture_scaled", "draw_texture_scaled_tinted",
            "draw_quad", "draw_ascii_tile"}

Quad(dest, texture, src, color) ==
    [dest |-> dest, texture |-> texture, src |-> src, color |-> color]

\* The quad the last entry point called hands to draw_texture, from its
\* arguments (a set: the tile addressing may have more than one outcome).
LastQuads ==
    LET a == last_call.args
    IN  CASE last_call.op = "draw_texture" -> {Quad(a[1], a[2], a[3], a[4])}
          [] last_call.op = "draw_texture_scaled" ->
                {Quad(Rect(a[1][1], a[1][2], FMul(a[2].w, a[3]), FMul(a[2].h, a[3])),
                      a[2], Rect(F(0), F(0), a[2].w, a[2].h), White)}
          [] last_call.op = "draw_texture_scaled_tinted" ->
                {Quad(Rect(a[1][1], a[1][2], FMul(a[2].w, a[3]), FMul(a[2].h, a[3])),
                      a[2], Rect(F(0), F(0), a[2].w, a[2].h), a[4])}
          [] last_call.op = "draw_quad" ->
                {Quad(a[1], g_gl_state.empty_texture, ZeroRect, a[2])}
          [] last_call.op = "draw_ascii_tile" ->
                {Quad(Rect(a[1][1], a[1][2], FOfU32(t.t_d), FOfU32(t.t_d)), a[4].tex,
                      Rect(FOfU32(t.x_min), FOfU32(t.y_min), FOfU32(t.t_d), FOfU32(t.t_d)),
                      a[3]) : t \in {t \in TileAddress(a[2], a[4]) : ~t.trap}}
          [] OTHER -> {}

\* The data of one quad, vertex after vertex: corners, normalised texture
\* coordinates, the color four times.
QuadPositions(d) ==
    <<d.x, d.y, FAdd(d.x, d.w), d.y, d.x, FAdd(d.y, d.h), FAdd(d.x, d.w), FAdd(d.y, d.h)>>
QuadTexCoords(s, t) ==
    LET x0 == FDiv(s.x, t.w)
        y0 == FDiv(s.y, t.h)
        x1 == FAdd(x0, FDiv(s.w, t.w))
        y1 == FAdd(y0, FDiv(s.h, t.h))
    IN  <<x0, y0, x1, y0, x0, y1, x1, y1>>
QuadColors(c) == [i \in 1 .. 16 |-> c[((i - 1) % 4) + 1]]

\* The 4-byte slots of the first four vertices of each region, and of the
\* first six indices.
PosSlots == 0 .. 7
TexSlots == (2 * MAX_VERT) .. (2 * MAX_VERT + 7)
ColSlots == (4 * MAX_VERT) .. (4 * MAX_VERT + 15)
IdxSlots == 0 .. 5

AfterDraw == pc = "loop_test" /\ last_call.op \in DrawOps

\* C5: after any sequence of calls of the drawing entry points the geometry
\* buffer holds the data of the last call only: the first 4 slots of the
\* position, texcoord and color regions are those of the last quad, the
\* first 6 index slots hold 2,1,0, 2,3,1, and no other slot is ever written.
C5_LastQuadOnly ==
    LET vbo == locals.gl_state.vbo
        ebo == locals.gl_state.ebo
    IN  (vbo \in DOMAIN gl.buffers /\ ebo \in DOMAIN gl.buffers) =>
          LET vd == gl.buffers[vbo].data
              ed == gl.buffers[ebo].data
          IN  /\ DOMAIN vd \subseteq (PosSlots \cup TexSlots \cup ColSlots)
              /\ DOMAIN ed \subseteq IdxSlots
              /\ AfterDraw =>
                   /\ DOMAIN vd = PosSlots \cup TexSlots \cup ColSlots
                   /\ DOMAIN ed = IdxSlots
                   /\ [k \in 1 .. 6 |-> ed[k - 1]] = <<2, 1, 0, 2, 3, 1>>
                   /\ \E q \in LastQuads :
                        /\ [k \in 1 .. 8 |-> vd[k - 1]] = QuadPositions(q.dest)
                        /\ [k \in 1 .. 8 |-> vd[2 * MAX_VERT + k - 1]]
                              = QuadTexCoords(q.src, q.texture)
                        /\ [k \in 1 .. 16 |-> vd[4 * MAX_VERT + k - 1]] = QuadColors(q.color)

\* A tinted quad has overwritten what an earlier call left in the buffer.
C5_Witness ==
    /\ AfterDraw /\ last_call.op = "draw_quad" /\ last_call.args[2] = BgTint
    /\ gl.buffers[g_gl_state.vbo].data[4 * MAX_VERT] = BgTint[1]
    /\ gl.buffers[g_gl_state.vbo].data[2 * MAX_VERT + 7] = F(0)
    /\ gl.buffers[g_gl_state.ebo].data[0] = 2

\* C6: no assertion of draw_texture or initialize_gl_state fails and no GL
\* call is in error, for the capacities 1024 / 4096: 4 vertices and 6 indices
\* fit, the texcoord region starts at capacity x position stride, the color
\* region at that plus capacity x texcoord stride, the three regions end at
\* the allocated size, and a draw fetches for every vertex exactly what the
\* call uploaded for it (upload offsets = declared offsets).
C6_Layout ==
    /\ pc # "aborted"
    /\ ~gl.error
    /\ MAX_VERT = 1024 /\ MAX_IDX = 4096
    /\ VertToSubCount = 4 /\ IdxToSubCount = 6
    /\ VertToSubCount <= MAX_VERT /\ IdxToSubCount <= MAX_IDX
    /\ UpPosOffset = FmtPosOffset /\ UpTexOffset = FmtTexOffset /\ UpColOffset = FmtColOffset
    /\ (locals.gl_state.vao \in DOMAIN gl.vaos) =>
          LET at == gl.vaos[locals.gl_state.vao].attribs
              vb == gl.buffers[locals.gl_state.vbo]
          IN  /\ DOMAIN at = {0, 1, 2}
              /\ \A i \in DOMAIN at : at[i].stride = at[i].size * 4 /\ at[i].enabled
                                       /\ at[i].buffer = locals.gl_state.vbo
              /\ at[0].offset = 0
              /\ at[1].offset = MAX_VERT * at[0].stride
              /\ at[2].offset = at[1].offset + MAX_VERT * at[1].stride
              /\ at[2].offset + MAX_VERT * at[2].stride = vb.size
              /\ gl.buffers[locals.gl_state.ebo].size = MAX_IDX * 4
    /\ AfterDraw =>
          /\ Len(gl.log) = 1 /\ gl.log[1].op = "draw"
          /\ DOMAIN gl.log[1].verts = 0 .. 3
          /\ \E q \in LastQuads :
               \A v \in 0 .. 3 :
                  LET f == gl.log[1].verts[v]
                  IN  /\ f.pos = SubSeq(QuadPositions(q.dest), 2 * v + 1, 2 * v + 2)
                      /\ f.tex = SubSeq(QuadTexCoords(q.src, q.texture), 2 * v + 1, 2 * v + 2)
                      /\ f.col = q.color

\* A draw_texture call has drawn from the buffer.
C6_Witness ==
    /\ AfterDraw /\ last_call.op = "draw_texture"
    /\ Len(gl.log) = 1 /\ gl.log[1].op = "draw"
    /\ gl.log[1].verts[3].pos = <<F(40), F(60)>>
    /\ gl.log[1].verts[3].col = BgTint

\* C7: a second window_size_callback with the arguments of the one just
\* before it changes neither the stored window dimensions nor the context
\* (viewport, projection uniform, bound program = none).
C7_Idempotent ==
    [][(last_call'.op = "window_size_callback" /\ last_call'.repeat) =>
          /\ g_window_state' = g_window_state
          /\ gl' = gl
          /\ gl'.program = 0
          /\ gl'.viewport = <<last_call'.args[1], last_call'.args[2]>>]_vars

\* The handler has run twice in a row for 640x480.
C7_Witness ==
    /\ last_call.op = "window_size_callback" /\ last_call.repeat
    /\ last_call.args = <<640, 480>>
    /\ g_window_state = [w |-> 640, h |-> 480]
    /\ gl.viewport = <<640, 480>>

\* C8: draw_quad issues exactly one indexed draw of one quad: positions the
\* rectangle's corners top-left, top-right, bottom-left, bottom-right, every
\* vertex color the given color, every texture coordinate (0,0), drawn with
\* the 1x1 white fallback texture bound.
C8_SolidQuad ==
    (AfterDraw /\ last_call.op = "draw_quad") =>
        LET r == last_call.args[1]
            c == last_call.args[2]
            d == gl.log[1]
        IN  /\ Len(gl.log) = 1 /\ d.op = "draw"
            /\ d.count = 6 /\ d.indices = <<2, 1, 0, 2, 3, 1>>
            /\ DOMAIN d.verts = 0 .. 3
            /\ d.verts[0].pos = <<r.x, r.y>>
            /\ d.verts[1].pos = <<FAdd(r.x, r.w), r.y>>
            /\ d.verts[2].pos = <<r.x, FAdd(r.y, r.h)>>
            /\ d.verts[3].pos = <<FAdd(r.x, r.w), FAdd(r.y, r.h)>>
            /\ \A v \in 0 .. 3 : d.verts[v].col = c /\ d.verts[v].tex = <<F(0), F(0)>>
            /\ d.texture = g_gl_state.empty_texture.id
            /\ d.texture \in DOMAIN gl.textures
            /\ gl.textures[d.texture].w = 1 /\ gl.textures[d.texture].h = 1
            /\ gl.textures[d.texture].pixels = "white"

\* A tinted 30x40 quad at (10,20) has been drawn.
C8_Witness ==
    /\ AfterDraw /\ last_call.op = "draw_quad"
    /\ last_call.args = <<Rect(F(10), F(20), F(30), F(40)), BgTint>>
    /\ Len(gl.log) = 1 /\ gl.log[1].verts[3].pos = <<F(40), F(60)>>

(***************************************************************************)
(* C1, C2, C9, C10: the application driver (checked under Spec).           *)
(***************************************************************************)
StartupPcs == {"glfwInit", "createWindow", "loadGL", "initGlState", "fragShader",
               "linkProgram", "loadClaesz", "loadCurses"}
RunningPcs == {"loop_test", "clear", "draw_bg", "draw_atlas", "draw_tile", "swap",
               "poll", "polling"}
StartupSuccessor(p) ==
    CASE p = "glfwInit" -> "createWindow"
      [] p = "createWindow" -> "loadGL"
      [] p = "loadGL" -> "initGlState"
      [] p = "initGlState" -> "fragShader"
      [] p = "fragShader" -> "linkProgram"
      [] p = "linkProgram" -> "loadClaesz"
      [] p = "loadClaesz" -> "loadCurses"
      [] p = "loadCurses" -> "loop_test"

LastOp(ops) == IF ops = <<>> THEN "none" ELSE ops[Len(ops)][1]
CallbackOps == {"keyboard_callback", "window_size_callback", "close"}

\* The exit paths of the driver: the loop is left only with the close flag
\* set, the flag is set only inside glfwPollEvents, no frame is begun once it
\* is set, and status 0 is returned after glfwTerminate.
C1_ExitPaths ==
    /\ (pc = "shutdown" \/ exit_status = 0) => glfw.should_close
    /\ glfw.should_close =>
          /\ pc \in {"polling", "loop_test", "shutdown", "exited"}
          /\ \E i \in DOMAIN frame_ops : frame_ops[i][1] \in {"keyboard_callback", "close"}
    /\ exit_status = 0 => (pc = "exited" /\ glfw.lib = "terminated" /\ ~glfw.window)
    /\ pc = "exited" => exit_status \in {0, 1}

\* C1 as stated: the driver leaves the Running state if and only if the
\* window-close signal is set or an Escape key press was delivered; after
\* either the loop draws no further frame, the windowing library is
\* terminated and the process exits with status 0.
C1_AsStated ==
    /\ C1_ExitPaths
    /\ pc \notin RunningPcs \cup StartupPcs => (glfw.should_close \/ exit_status = 1)

\* A startup step goes on to the next step or is fatal.
StartupStep ==
    pc \in StartupPcs =>
        \/ pc' = StartupSuccessor(pc) /\ exit_status' = exit_status
        \/ /\ pc' = "exited" /\ exit_status' = 1
           /\ glfw'.lib = "terminated" /\ ~glfw'.window
           /\ frame_ops' = <<>>

\* C2: every startup failure is fatal: the step that fails terminates the
\* windowing library and exits with status 1, a startup step otherwise only
\* goes on to the next one, the frame loop is never entered with status 1,
\* and in the frame loop the library, the window, the callbacks, the shader
\* program and both textures exist.
C2_FatalStartup ==
    /\ [](/\ exit_status = 1 =>
                (pc = "exited" /\ glfw.lib = "terminated" /\ ~glfw.window
                 /\ frame_ops = <<>> /\ curses_atlas = ZeroAtlas)
          /\ pc \in RunningPcs =>
                /\ exit_status = 0 - 1
                /\ glfw.lib = "on" /\ glfw.window /\ glfw.key_cb /\ glfw.size_cb
                /\ g_gl_state.shader \in DOMAIN gl.programs
                /\ gl.shaders = {}
                /\ g_gl_state.vbo \in DOMAIN gl.buffers /\ g_gl_state.ebo \in DOMAIN gl.buffers
                /\ g_gl_state.vao \in DOMAIN gl.vaos
                /\ {g_gl_state.empty_texture.id, claesz.id, curses_atlas.tex.id}
                      \subseteq DOMAIN gl.textures
                /\ claesz.id # curses_atlas.tex.id
          /\ frame_ops # <<>> => exit_status # 1)
    /\ [][StartupStep]_vars

\* The second image failed to load after everything before it succeeded.
C2_Witness ==
    /\ exit_status = 1 /\ pc = "exited" /\ glfw.lib = "terminated"
    /\ claesz.id \in DOMAIN gl.textures /\ curses_atlas = ZeroAtlas

\* The order of a frame: clear, the background, the atlas preview, the 2500
\* tiles row by row with glyph (x + y * tiles_per_row) mod 128 in 0..127,
\* present, poll events; callbacks only inside the poll-events step.
C9_FrameOrder ==
    LET drawn(n) == <<<<"clear", 1>>, <<"draw", n>>>>
    IN  /\ pc = "clear" => frame_ops = <<>>
        /\ pc = "draw_bg" => frame_ops = <<<<"clear", 1>>>>
        /\ pc = "draw_atlas" => frame_ops = drawn(1)
        /\ pc = "draw_tile" =>
              /\ lx \in 0 .. 49 /\ ly \in 0 .. 49
              /\ frame_ops = drawn(2 + lx + 50 * ly)
              /\ CellGlyph(lx, ly, curses_atlas, char_signed) \in 0 .. 127
              /\ CellGlyph(lx, ly, curses_atlas, char_signed)
                    = (lx + ly * curses_atlas.h_count) % 128
        /\ pc = "swap" => frame_ops = drawn(2502)
        /\ pc = "poll" => frame_ops = drawn(2502) \o <<<<"swap", 1>>>>
        /\ pc = "polling" =>
              /\ Len(frame_ops) >= 4
              /\ SubSeq(frame_ops, 1, 4) = drawn(2502) \o <<<<"swap", 1>>, <<"poll", 1>>>>
        /\ \A i \in DOMAIN frame_ops : frame_ops[i][1] \in CallbackOps => i > 4

\* C9 as stated: every frame of the Running state performs clear, the two
\* draws, the 2500 tile draws, present and poll events, in this order and
\* with nothing else in between.
C9_AsStated ==
    /\ C9_FrameOrder
    /\ pc \in RunningPcs \cup StartupPcs \cup {"shutdown", "exited"}

\* A step that changes the stored window dimensions.
StoredDimsStep ==
    g_window_state' # g_window_state =>
        \/ /\ pc = "createWindow" /\ g_window_state = [w |-> 0, h |-> 0]
           /\ g_window_state' = [w |-> 800, h |-> 600]
        \/ /\ pc = "polling" /\ frame_ops' # frame_ops
           /\ LastOp(frame_ops') = "window_size_callback"
\* A step in which window_size_callback runs.
ResizeStep ==
    (frame_ops' # frame_ops /\ LastOp(frame_ops') = "window_size_callback") =>
        /\ pc = "polling"
        /\ g_gl_state.shader \in DOMAIN gl.programs
        /\ g_window_state'.w = gl'.viewport[1] /\ g_window_state'.h = gl'.viewport[2]

\* C10: at the start of every frame the viewport and the projection uniform
\* are those of the stored window dimensions; the stored dimensions change
\* only in window_size_callback after their assignment to 800x600; and
\* window_size_callback runs only inside glfwPollEvents, when the shader
\* program exists.
C10_WindowState ==
    /\ [](pc \in {"loop_test", "clear"} =>
            /\ gl.viewport = <<g_window_state.w, g_window_state.h>>
            /\ g_gl_state.shader \in DOMAIN gl.programs
            /\ gl.programs[g_gl_state.shader].projection =
                  glm_ortho(F(0), F(g_window_state.w), F(g_window_state.h), F(0),
                            F(0 - 1), F(1)))
    /\ [][StoredDimsStep]_vars
    /\ [][ResizeStep]_vars

\* A frame starts after the window was resized to 640x480.
C10_Witness ==
    /\ pc = "clear"
    /\ g_window_state = [w |-> 640, h |-> 480]
    /\ gl.viewport = <<640, 480>>
    /\ gl.programs[g_gl_state.shader].projection.m00 = FDec(2, 640)

====
